---------------------------- MODULE Spec2Model ----------------------------
(***************************************************************************)
(* State-machine model of the conversational movie search endpoint         *)
(* (backend/src/endpoints/chat_search.py): the filter extractor with its   *)
(* regex fallback, the query embedder, the vector-index query and the      *)
(* result filter.                                                          *)
(*                                                                         *)
(* Text is modelled as a sequence of one-character strings, so that        *)
(* str.lower(), substring tests, str.split and the regular expressions     *)
(* are computed character by character as Python computes them.            *)
(***************************************************************************)
EXTENDS Integers, Sequences, FiniteSets, TLC

(***************************************************************************)
(* Python values                                                           *)
(***************************************************************************)

\* Python None for an Optional[str] field (no text has a multi-character element).
None == <<"None">>

\* Python None for an Optional[int] field; the years of the model are >= 0.
NoneInt == -1

\* Python truthiness of an Optional[int]: None and 0 are both falsy.
TruthyInt(x) == x # NoneInt /\ x # 0

\* Python truthiness of an Optional[str]: None and "" are both falsy.
TruthyStr(s) == s # None /\ s # <<>>

(***************************************************************************)
(* Characters                                                              *)
(***************************************************************************)

UpperLetters ==
  <<"A","B","C","D","E","F","G","H","I","J","K","L","M",
    "N","O","P","Q","R","S","T","U","V","W","X","Y","Z">>

LowerLetters ==
  <<"a","b","c","d","e","f","g","h","i","j","k","l","m",
    "n","o","p","q","r","s","t","u","v","w","x","y","z">>

Digits == <<"0","1","2","3","4","5","6","7","8","9">>

Range(s) == {s[i] : i \in 1..Len(s)}

UpperSet == Range(UpperLetters)

DigitSet == Range(Digits)

WordCharSet == Range(UpperLetters) \cup Range(LowerLetters) \cup Range(Digits) \cup {"_"}

\* each upper-case letter's lower-case letter
LowerOf == [c \in UpperSet |-> LowerLetters[CHOOSE i \in 1..26 : UpperLetters[i] = c]]

\* each digit's value
ValueOf == [c \in DigitSet |-> (CHOOSE i \in 1..10 : Digits[i] = c) - 1]

IsDigit(c) == c \in DigitSet

DigitVal(c) == ValueOf[c]

IsSpace(c) == c \in {" ", "\t", "\n"}

IsWordChar(c) == c \in WordCharSet

\* str.lower() on one character
LowerChar(c) == IF c \in UpperSet THEN LowerOf[c] ELSE c

\* str.lower()
Lower(s) == [i \in 1..Len(s) |-> LowerChar(s[i])]

\* s[p:p+len(w)] == w
StartsWith(s, p, w) ==
  /\ p + Len(w) - 1 <= Len(s)
  /\ \A k \in 1..Len(w) : s[p + k - 1] = w[k]

\* Python's `w in s` on strings
Contains(s, w) == \E p \in 1..(Len(s) + 1) : StartsWith(s, p, w)

\* " ".join(parts)
RECURSIVE JoinSpace(_)
JoinSpace(parts) ==
  IF Len(parts) = 0 THEN <<>>
  ELSE IF Len(parts) = 1 THEN parts[1]
  ELSE parts[1] \o <<" ">> \o JoinSpace(Tail(parts))

\* int() of a string of decimal digits
RECURSIVE DigitsValue(_)
DigitsValue(s) ==
  IF s = <<>> THEN 0
  ELSE 10 * DigitsValue(SubSeq(s, 1, Len(s) - 1)) + DigitVal(s[Len(s)])

(***************************************************************************)
(* Regular expressions (Python re, flags=re.IGNORECASE)                    *)
(*                                                                         *)
(* A pattern is a syntax tree.  Match is a backtracking matcher with       *)
(* Python's priorities: the alternatives of | are tried left to right, a   *)
(* greedy + or * tries more repetitions first, and the first way found to  *)
(* match the whole pattern is the match.  A match state is the position of *)
(* the next character and the spans of the capture groups.                 *)
(***************************************************************************)

Lit(s) == [op |-> "lit", s |-> s]

\* \d
ClsDigit == [op |-> "cls", c |-> "d"]

\* \s
ClsSpace == [op |-> "cls", c |-> "s"]

\* \b
WordB == [op |-> "wb"]

Cat(a) == [op |-> "cat", a |-> a]

Alt(a) == [op |-> "alt", a |-> a]

\* n*
Star(n) == [op |-> "star", n |-> n]

\* n+
Plus(n) == Cat(<<n, Star(n)>>)

\* n{k}
Rep(n, k) == [op |-> "rep", n |-> n, k |-> k]

\* the capture group number i
Grp(i, n) == [op |-> "grp", i |-> i, n |-> n]

\* the end of capture group i, which began at position from
GrpEnd(i, from) == [op |-> "end", i |-> i, from |-> from]

InClass(c, cls) == IF cls = "d" THEN IsDigit(c) ELSE IsSpace(c)

\* \b at position p: between t[p-1] and t[p], one a word character and one not
AtWordBoundary(t, p) ==
  LET before == p > 1 /\ p - 1 <= Len(t) /\ IsWordChar(t[p - 1])
      after  == p >= 1 /\ p <= Len(t) /\ IsWordChar(t[p])
  IN  before # after

\* a literal under re.IGNORECASE
StartsWithCI(t, p, w) ==
  /\ p + Len(w) - 1 <= Len(t)
  /\ \A k \in 1..Len(w) : LowerChar(t[p + k - 1]) = LowerChar(w[k])

\* A configuration of the matcher: what is left to match (first node first)
\* and the match state.
Config(todo, st) == [todo |-> todo, st |-> st]

\* One step on the first node of a configuration: the configurations to try
\* next, the preferred one first; none if the node does not match here.
Step(c, t) ==
  LET n == Head(c.todo)
      rest == Tail(c.todo)
      st == c.st
  IN  CASE n.op = "lit" ->
             IF StartsWithCI(t, st.pos, n.s)
               THEN <<Config(rest, [st EXCEPT !.pos = @ + Len(n.s)])>> ELSE <<>>
        [] n.op = "cls" ->
             IF st.pos <= Len(t) /\ InClass(t[st.pos], n.c)
               THEN <<Config(rest, [st EXCEPT !.pos = @ + 1])>> ELSE <<>>
        [] n.op = "wb" ->
             IF AtWordBoundary(t, st.pos) THEN <<Config(rest, st)>> ELSE <<>>
        [] n.op = "cat" -> <<Config(n.a \o rest, st)>>
        [] n.op = "alt" ->
             IF n.a = <<>> THEN <<>>
             ELSE <<Config(<<Head(n.a)>> \o rest, st),
                    Config(<<Alt(Tail(n.a))>> \o rest, st)>>
        [] n.op = "star" ->
             <<Config(<<n.n, n>> \o rest, st), Config(rest, st)>>
        [] n.op = "rep" ->
             IF n.k = 0 THEN <<Config(rest, st)>>
             ELSE <<Config(<<n.n, Rep(n.n, n.k - 1)>> \o rest, st)>>
        [] n.op = "grp" -> <<Config(<<n.n, GrpEnd(n.i, st.pos)>> \o rest, st)>>
        [] n.op = "end" ->
             <<Config(rest, [st EXCEPT !.g[n.i] = <<n.from, st.pos - 1>>])>>

\* The backtracking search: stack holds the configurations still to try, the
\* preferred one first.  The result is <<the final match state>> of the first
\* configuration that matches everything, or <<>>.
RECURSIVE Match(_, _)
Match(stack, t) ==
  IF stack = <<>> THEN <<>>
  ELSE IF Head(stack).todo = <<>> THEN <<Head(stack).st>>
  ELSE Match(Step(Head(stack), t) \o Tail(stack), t)

\* a match object; grp[i] is the span <<first, last>> of group i, <<>> if unset
NoMatch == [found |-> FALSE, start |-> 0, grp |-> << <<>>, <<>> >>]

\* re.match at position p
MatchAt(re, t, p) ==
  LET sts == Match(<<Config(<<re>>, [pos |-> p, g |-> << <<>>, <<>> >>])>>, t)
  IN  IF sts = <<>> THEN NoMatch
      ELSE [found |-> TRUE, start |-> p, grp |-> sts[1].g]

\* re.search(re, t, re.IGNORECASE): the match at the leftmost position that has one
search(re, t) ==
  LET starts == {p \in 1..(Len(t) + 1) : MatchAt(re, t, p).found}
  IN  IF starts = {} THEN NoMatch
      ELSE MatchAt(re, t, CHOOSE p \in starts : \A q \in starts : p <= q)

\* match.group(i)
group(m, t, i) == SubSeq(t, m.grp[i][1], m.grp[i][2])

(***************************************************************************)
(* ChatMessage, ChatSearchFilters                                          *)
(***************************************************************************)

\* ChatMessage(role, content)
ChatMessage(role, content) == [role |-> role, content |-> content]

\* ChatSearchFilters(...) with every field given
ChatSearchFilters(q, lo, hi, inc, exc) ==
  [main_query |-> q, min_year |-> lo, max_year |-> hi,
   include_genres |-> inc, exclude_genres |-> exc]

\* ChatSearchFilters(): the field defaults
DefaultFilters == ChatSearchFilters(<<>>, NoneInt, NoneInt, <<>>, <<>>)

(***************************************************************************)
(* extract_filters_fallback: the regex rules                               *)
(***************************************************************************)

\* \d{4}
Year4 == Rep(ClsDigit, 4)

\* r'(?:before|prior to|earlier than|until|up to)\s+(\d{4})'
before_year_re ==
  Cat(<<Alt(<<Lit(<<"b","e","f","o","r","e">>), Lit(<<"p","r","i","o","r"," ","t","o">>), Lit(<<"e","a","r","l","i","e","r"," ","t","h","a","n">>), Lit(<<"u","n","t","i","l">>), Lit(<<"u","p"," ","t","o">>)>>),
        Plus(ClsSpace), Grp(1, Year4)>>)

\* r'(?:after|since|from|later than|newer than)\s+(\d{4})'
after_year_re ==
  Cat(<<Alt(<<Lit(<<"a","f","t","e","r">>), Lit(<<"s","i","n","c","e">>), Lit(<<"f","r","o","m">>), Lit(<<"l","a","t","e","r"," ","t","h","a","n">>), Lit(<<"n","e","w","e","r"," ","t","h","a","n">>)>>),
        Plus(ClsSpace), Grp(1, Year4)>>)

\* r'(?:from|between)\s+(\d{4})(?:\s+to|\s*-\s*|\s+and\s+)(\d{4})'
year_range_re ==
  Cat(<<Alt(<<Lit(<<"f","r","o","m">>), Lit(<<"b","e","t","w","e","e","n">>)>>),
        Plus(ClsSpace), Grp(1, Year4),
        Alt(<<Cat(<<Plus(ClsSpace), Lit(<<"t","o">>)>>),
              Cat(<<Star(ClsSpace), Lit(<<"-">>), Star(ClsSpace)>>),
              Cat(<<Plus(ClsSpace), Lit(<<"a","n","d">>), Plus(ClsSpace)>>)>>),
        Grp(2, Year4)>>)

\* r'(?:in\s+the\s+|from\s+the\s+|)(\d0)s'
decade_re ==
  Cat(<<Alt(<<Cat(<<Lit(<<"i","n">>), Plus(ClsSpace), Lit(<<"t","h","e">>), Plus(ClsSpace)>>),
              Cat(<<Lit(<<"f","r","o","m">>), Plus(ClsSpace), Lit(<<"t","h","e">>), Plus(ClsSpace)>>),
              Cat(<<>>)>>),
        Grp(1, Cat(<<ClsDigit, Lit(<<"0">>)>>)), Lit(<<"s">>)>>)

\* r'(?:in|from|released\s+in)\s+(\d{4})\b'
specific_year_re ==
  Cat(<<Alt(<<Lit(<<"i","n">>), Lit(<<"f","r","o","m">>),
              Cat(<<Lit(<<"r","e","l","e","a","s","e","d">>), Plus(ClsSpace), Lit(<<"i","n">>)>>)>>),
        Plus(ClsSpace), Grp(1, Year4), WordB>>)

common_genres ==
  << <<"a","c","t","i","o","n">>,
     <<"a","d","v","e","n","t","u","r","e">>,
     <<"a","n","i","m","a","t","i","o","n">>,
     <<"c","o","m","e","d","y">>,
     <<"c","r","i","m","e">>,
     <<"d","o","c","u","m","e","n","t","a","r","y">>,
     <<"d","r","a","m","a">>,
     <<"f","a","m","i","l","y">>,
     <<"f","a","n","t","a","s","y">>,
     <<"h","i","s","t","o","r","y">>,
     <<"h","o","r","r","o","r">>,
     <<"m","u","s","i","c">>,
     <<"m","y","s","t","e","r","y">>,
     <<"r","o","m","a","n","c","e">>,
     <<"s","c","i","e","n","c","e"," ","f","i","c","t","i","o","n">>,
     <<"s","c","i","-","f","i">>,
     <<"t","h","r","i","l","l","e","r">>,
     <<"w","a","r">>,
     <<"w","e","s","t","e","r","n">>,
     <<"i","n","d","i","a","n">>,
     <<"b","o","l","l","y","w","o","o","d">> >>

\* rf'\b{genre}\b'
genre_re(genre) == Cat(<<WordB, Lit(genre), WordB>>)

\* exclusion_pattern that knows "except" only (a faulty variant: C13 fails
\* for it)
exclusion_pattern_except_only(genre) ==
  Cat(<<Grp(1, Lit(<<"e","x","c","e","p","t">>)), Plus(ClsSpace), Lit(genre)>>)

\* rf'(not|except|don\'t\s+want|no)\s+{genre}'
exclusion_pattern(genre) ==
  Cat(<<Grp(1, Alt(<<Lit(<<"n","o","t">>), Lit(<<"e","x","c","e","p","t">>),
                     Cat(<<Lit(<<"d","o","n","'","t">>), Plus(ClsSpace), Lit(<<"w","a","n","t">>)>>),
                     Lit(<<"n","o">>)>>)),
        Plus(ClsSpace), Lit(genre)>>)

\* int(m.group(i))
IntGroup(m, t, i) == DigitsValue(group(m, t, i))

\* [m.content for m in messages if m.role == "user"]
RECURSIVE UserContents(_)
UserContents(messages) ==
  IF messages = <<>> THEN <<>>
  ELSE (IF Head(messages).role = "user" THEN <<Head(messages).content>> ELSE <<>>)
         \o UserContents(Tail(messages))

\* the loop over common_genres from its k-th term on: each term that occurs in
\* the text is appended to exclude_genres if its exclusion pattern matches, and
\* to include_genres otherwise
RECURSIVE ScanGenres(_, _, _)
ScanGenres(k, combined_text, filters) ==
  IF k > Len(common_genres) THEN filters
  ELSE LET genre == common_genres[k]
           next ==
             IF search(genre_re(genre), combined_text).found
               THEN IF search(exclusion_pattern(genre), combined_text).found
                      THEN [filters EXCEPT !.exclude_genres = Append(@, genre)]
                      ELSE [filters EXCEPT !.include_genres = Append(@, genre)]
               ELSE filters
       IN  ScanGenres(k + 1, combined_text, next)

\* if before_year_match: filters.max_year = int(before_year_match.group(1))
BeforeYearRule(combined_text, f) ==
  LET before_year_match == search(before_year_re, combined_text)
  IN  IF before_year_match.found
        THEN [f EXCEPT !.max_year = IntGroup(before_year_match, combined_text, 1)]
        ELSE f

\* if after_year_match: filters.min_year = int(after_year_match.group(1))
AfterYearRule(combined_text, f) ==
  LET after_year_match == search(after_year_re, combined_text)
  IN  IF after_year_match.found
        THEN [f EXCEPT !.min_year = IntGroup(after_year_match, combined_text, 1)]
        ELSE f

\* if year_range_match: both bounds from its two groups
YearRangeRule(combined_text, f) ==
  LET year_range_match == search(year_range_re, combined_text)
  IN  IF year_range_match.found
        THEN [f EXCEPT !.min_year = IntGroup(year_range_match, combined_text, 1),
                       !.max_year = IntGroup(year_range_match, combined_text, 2)]
        ELSE f

\* DecadeRule that writes only the bounds no earlier rule wrote (a faulty
\* variant: C18 fails for it)
DecadeRule_keeps_earlier(combined_text, f) ==
  LET decade_match == search(decade_re, combined_text)
      decade == IntGroup(decade_match, combined_text, 1)
  IN  IF decade_match.found
        THEN [f EXCEPT !.min_year = IF @ = NoneInt THEN 1900 + decade ELSE @,
                       !.max_year = IF @ = NoneInt THEN 1900 + decade + 9 ELSE @]
        ELSE f

\* if decade_match: min_year = 1900 + decade, max_year = 1900 + decade + 9
DecadeRule(combined_text, f) ==
  LET decade_match == search(decade_re, combined_text)
  IN  IF decade_match.found
        THEN [f EXCEPT !.min_year = 1900 + IntGroup(decade_match, combined_text, 1),
                       !.max_year = 1900 + IntGroup(decade_match, combined_text, 1) + 9]
        ELSE f

\* if specific_year_match and not filters.min_year and not filters.max_year
SpecificYearRule(combined_text, f) ==
  LET specific_year_match == search(specific_year_re, combined_text)
  IN  IF /\ specific_year_match.found
         /\ ~TruthyInt(f.min_year)
         /\ ~TruthyInt(f.max_year)
        THEN [f EXCEPT !.min_year = IntGroup(specific_year_match, combined_text, 1),
                       !.max_year = IntGroup(specific_year_match, combined_text, 1)]
        ELSE f

\* the year rules in the order of the code; each reads the filters the rules
\* before it wrote
YearRules(combined_text, f0) ==
  SpecificYearRule(combined_text,
    DecadeRule(combined_text,
      YearRangeRule(combined_text,
        AfterYearRule(combined_text,
          BeforeYearRule(combined_text, f0)))))

extract_filters_fallback(messages) ==
  LET combined_text == JoinSpace(UserContents(messages))
      main_query ==
        IF messages # <<>> /\ messages[Len(messages)].role = "user"
          THEN messages[Len(messages)].content
          ELSE combined_text
      f0 == [DefaultFilters EXCEPT !.main_query = main_query]
  IN  ScanGenres(1, combined_text, YearRules(combined_text, f0))

(***************************************************************************)
(* apply_filters                                                           *)
(***************************************************************************)

\* ChatSearchResultItem; poster_path is carried through unread and left out
ChatSearchResultItem(id, title, release_date, genres, overview, distance) ==
  [id |-> id, title |-> title, release_date |-> release_date,
   genres |-> genres, overview |-> overview, distance |-> distance]

\* s.split('-')[0]: the text before the first "-"
RECURSIVE SplitDashFirst(_)
SplitDashFirst(s) ==
  IF s = <<>> \/ Head(s) = "-" THEN <<>>
  ELSE <<Head(s)>> \o SplitDashFirst(Tail(s))

\* s.strip()
RECURSIVE Strip(_)
Strip(s) ==
  IF s = <<>> THEN s
  ELSE IF IsSpace(Head(s)) THEN Strip(Tail(s))
  ELSE IF IsSpace(s[Len(s)]) THEN Strip(SubSeq(s, 1, Len(s) - 1))
  ELSE s

\* s without its "_" characters
RECURSIVE DropUnderscores(_)
DropUnderscores(s) ==
  IF s = <<>> THEN <<>>
  ELSE (IF Head(s) = "_" THEN <<>> ELSE <<Head(s)>>) \o DropUnderscores(Tail(s))

\* the body of an int literal: digits, single underscores between digits allowed
IsIntBody(b) ==
  /\ b # <<>>
  /\ \A i \in 1..Len(b) : IsDigit(b[i]) \/ b[i] = "_"
  /\ IsDigit(b[1]) /\ IsDigit(b[Len(b)])
  /\ \A i \in 1..(Len(b) - 1) : ~(b[i] = "_" /\ b[i + 1] = "_")

\* int(s): <<value>>, or <<>> where Python raises ValueError.  int() takes
\* surrounding whitespace, one sign, and digits
ParseInt(s) ==
  LET t == Strip(s)
      signed == t # <<>> /\ t[1] \in {"+", "-"}
      body == IF signed THEN Tail(t) ELSE t
      value == DigitsValue(DropUnderscores(body))
  IN  IF ~IsIntBody(body) THEN <<>>
      ELSE IF signed /\ t[1] = "-" THEN <<0 - value>>
      ELSE <<value>>

\* try: int(item.release_date.split('-')[0])  except (ValueError, IndexError): 0
ReleaseYear(release_date) ==
  LET parsed == ParseInt(SplitDashFirst(release_date))
  IN  IF parsed = <<>> THEN 0 ELSE parsed[1]

\* x in list
InList(x, list) == \E i \in 1..Len(list) : list[i] = x

RegionalGenres == << <<"i","n","d","i","a","n">>, <<"b","o","l","l","y","w","o","o","d">> >>

RegionalTerms == << <<"i","n","d","i","a","n">>, <<"b","o","l","l","y","w","o","o","d">>, <<"h","i","n","d","i">> >>

\* field and any(term in field.lower() for term in ["indian", "bollywood", "hindi"])
HasRegionalTerm(field) ==
  /\ TruthyStr(field)
  /\ \E i \in 1..Len(RegionalTerms) : Contains(Lower(field), RegionalTerms[i])

\* any(genre.lower() in item_genres_lower for genre in genres)
AnyGenreIn(genres, item_genres_lower) ==
  \E i \in 1..Len(genres) : Contains(item_genres_lower, Lower(genres[i]))

\* [g for g in include_genres if g not in ["indian", "bollywood"]]
RECURSIVE OtherGenres(_)
OtherGenres(genres) ==
  IF genres = <<>> THEN <<>>
  ELSE (IF InList(Head(genres), RegionalGenres) THEN <<>> ELSE <<Head(genres)>>)
         \o OtherGenres(Tail(genres))

ItemGenresLower(item) == IF TruthyStr(item.genres) THEN Lower(item.genres) ELSE <<>>

IncludeMatch(item, filters) ==
  LET inc == filters.include_genres
      regional == InList(RegionalGenres[1], inc) \/ InList(RegionalGenres[2], inc)
      indian_match ==
        \/ HasRegionalTerm(item.genres)
        \/ HasRegionalTerm(item.title)
        \/ HasRegionalTerm(item.overview)
      other_genres == OtherGenres(inc)
      regular_match ==
        other_genres = <<>> \/ AnyGenreIn(other_genres, ItemGenresLower(item))
  IN  IF inc = <<>> THEN TRUE
      ELSE IF regional
        THEN IF Len(inc) = 1 THEN indian_match
             ELSE indian_match \/ regular_match
      ELSE AnyGenreIn(inc, ItemGenresLower(item))

ExcludeMatch(item, filters) ==
  /\ filters.exclude_genres # <<>>
  /\ AnyGenreIn(filters.exclude_genres, ItemGenresLower(item))

\* KeepItem with the exclusion checked only when no genre is asked for
\* (a faulty variant: C9 fails for it)
KeepItem_include_first(item, filters) ==
  /\ TruthyStr(item.release_date)
  /\ ~(TruthyInt(filters.min_year) /\ ReleaseYear(item.release_date) < filters.min_year)
  /\ ~(TruthyInt(filters.max_year) /\ ReleaseYear(item.release_date) > filters.max_year)
  /\ IF filters.include_genres # <<>>
       THEN IncludeMatch(item, filters)
       ELSE ~ExcludeMatch(item, filters)

\* KeepItem with `continue` in the except branch, for release_year = 0
\* (a faulty variant: the amended C10 fails for it)
KeepItem_parsed_only(item, filters) ==
  /\ TruthyStr(item.release_date)
  /\ ParseInt(SplitDashFirst(item.release_date)) # <<>>
  /\ ~(TruthyInt(filters.min_year) /\ ReleaseYear(item.release_date) < filters.min_year)
  /\ ~(TruthyInt(filters.max_year) /\ ReleaseYear(item.release_date) > filters.max_year)
  /\ IncludeMatch(item, filters)
  /\ ~ExcludeMatch(item, filters)

\* one pass of the loop body: TRUE if the item is appended to filtered_results
KeepItem(item, filters) ==
  /\ TruthyStr(item.release_date)
  /\ ~(TruthyInt(filters.min_year) /\ ReleaseYear(item.release_date) < filters.min_year)
  /\ ~(TruthyInt(filters.max_year) /\ ReleaseYear(item.release_date) > filters.max_year)
  /\ IncludeMatch(item, filters)
  /\ ~ExcludeMatch(item, filters)

\* apply_filters with insert(0, item) for append (a faulty variant: C1 fails
\* for it)
RECURSIVE apply_filters_prepending(_, _)
apply_filters_prepending(results, filters) ==
  IF results = <<>> THEN <<>>
  ELSE apply_filters_prepending(Tail(results), filters)
         \o (IF KeepItem(Head(results), filters) THEN <<Head(results)>> ELSE <<>>)

RECURSIVE apply_filters(_, _)
apply_filters(results, filters) ==
  IF results = <<>> THEN <<>>
  ELSE (IF KeepItem(Head(results), filters) THEN <<Head(results)>> ELSE <<>>)
         \o apply_filters(Tail(results), filters)

(***************************************************************************)
(* process_conversation_with_llm                                           *)
(*                                                                         *)
(* What the language-model call did is an input: it raised, or it returned *)
(* a message whose content is None, text that is not JSON, or a JSON       *)
(* value.  A JSON value is tagged with its type; Absent marks a key the    *)
(* object does not have.                                                   *)
(***************************************************************************)

JNull == [t |-> "null"]

JInt(v) == [t |-> "int", v |-> v]

JStr(v) == [t |-> "str", v |-> v]

JList(v) == [t |-> "list", v |-> v]

Absent == [t |-> "absent"]

JObject(q, lo, hi, inc, exc) ==
  [t |-> "object", main_query |-> q, min_year |-> lo, max_year |-> hi,
   include_genres |-> inc, exclude_genres |-> exc]

\* dict.get(key, default), given the value under the key
Get(value, default) == IF value = Absent THEN default ELSE value

\* pydantic, field of type str
ValidStr(j) == j.t = "str"

\* pydantic, field of type Optional[int]: None, an int, or a string of digits
\* (which pydantic converts)
ValidOptInt(j) ==
  \/ j.t \in {"null", "int"}
  \/ j.t = "str" /\ ParseInt(j.v) # <<>>

OptIntOf(j) ==
  IF j.t = "null" THEN NoneInt
  ELSE IF j.t = "int" THEN j.v
  ELSE ParseInt(j.v)[1]

\* pydantic, field of type List[str]
ValidStrList(j) ==
  /\ j.t = "list"
  /\ \A i \in 1..Len(j.v) : j.v[i].t = "str"

StrListOf(j) == [i \in 1..Len(j.v) |-> j.v[i].v]

Returned(value) == [raised |-> "", value |-> value]

Raised(exception) == [raised |-> exception, value |-> DefaultFilters]

\* ChatSearchFilters(main_query=filters.get("main_query", ""), ...), lines 131-137
FiltersFromJson(obj) ==
  LET q   == Get(obj.main_query, JStr(<<>>))
      lo  == Get(obj.min_year, JNull)
      hi  == Get(obj.max_year, JNull)
      inc == Get(obj.include_genres, JList(<<>>))
      exc == Get(obj.exclude_genres, JList(<<>>))
  IN  IF /\ ValidStr(q) /\ ValidOptInt(lo) /\ ValidOptInt(hi)
         /\ ValidStrList(inc) /\ ValidStrList(exc)
        THEN Returned(ChatSearchFilters(q.v, OptIntOf(lo), OptIntOf(hi),
                                        StrListOf(inc), StrListOf(exc)))
        ELSE Raised("ValidationError")

\* the body of the outer try, lines 83-137, without its handlers
LLMTryBody(llm) ==
  CASE llm.kind = "error" -> Raised("APIError")
    [] llm.kind = "null_content" -> Raised("TypeError")
    [] llm.kind = "text" -> Raised("JSONDecodeError")
    [] llm.kind = "json" ->
         IF llm.json.t # "object" THEN Raised("AttributeError")
         ELSE FiltersFromJson(llm.json)

(***************************************************************************)
(* The inputs of the model                                                 *)
(***************************************************************************)

\* n_results: Optional[int] = Field(5, ge=1, le=20)
MinNResults == 1

MaxNResults == 20

DefaultNResults == 5

\* the n_results a request of the model may carry: the ends of the range, the
\* default, small counts (the truncation cuts) and the counts around the cap
\* of the query size (3 * 16 < 50 < 3 * 17)
NResultsChoices ==
  {n \in MinNResults..MaxNResults :
     n \in {MinNResults, 2, 3, DefaultNResults, 16, 17, MaxNResults}}

\* n_results=min(n_results, 50)
QueryCap == 50

\* multiplier = 3 if (...) else 1
OverfetchMultiplier == 3

\* the conversations a request may carry
ConversationList ==
  << <<>>,
    << ChatMessage("user", <<"S","u","g","g","e","s","t"," ","a","c","t","i","o","n"," ","m","o","v","i","e","s"," ","b","e","f","o","r","e"," ","2","0","1","0",","," ","n","o","t"," ","h","o","r","r","o","r">>) >>,
    << ChatMessage("user", <<"m","o","v","i","e","s"," ","f","r","o","m"," ","t","h","e"," ","9","0","s">>) >>,
    << ChatMessage("user", <<"I"," ","w","a","n","t"," ","B","o","l","l","y","w","o","o","d"," ","f","i","l","m","s">>) >>,
    << ChatMessage("user", <<"i","n"," ","1","9","8","5">>),
       ChatMessage("assistant", <<"o","k",","," ","d","r","a","m","a">>) >>,
    << ChatMessage("system", <<"b","e"," ","b","r","i","e","f">>) >>,
    << ChatMessage("user", <<"f","r","o","m"," ","0","0","0","0">>) >>,
    << ChatMessage("user", <<"n","o"," ","w","a","r">>) >> >>

Conversations == Range(ConversationList)

\* what the language-model call may do
LLMOutcomes ==
  { [kind |-> "error"],
    [kind |-> "null_content"],
    [kind |-> "text"],
    [kind |-> "json", json |-> JList(<<>>)],
    [kind |-> "json", json |-> JObject(Absent, Absent, Absent, Absent, Absent)],
    [kind |-> "json", json |-> JObject(JStr(<<"d","r","a","m","a">>), JNull, JNull, JList(<<>>), JList(<<>>))],
    [kind |-> "json", json |-> JObject(JStr(<<"s","p","a","c","e">>), JInt(1990), JInt(1999), JList(<<JStr(<<"D","r","a","m","a">>)>>), JList(<<JStr(<<"h","o","r","r","o","r">>)>>))],
    [kind |-> "json", json |-> JObject(JStr(<<"s","p","a","c","e">>), JNull, JInt(0), Absent, Absent)],
    [kind |-> "json", json |-> JObject(JStr(<<"i","n","d","i","a">>), Absent, Absent, JList(<<JStr(<<"i","n","d","i","a","n">>)>>), JList(<<>>))],
    [kind |-> "json", json |-> JObject(JStr(<<"d","r","a","m","a">>), JStr(<<"2","0","1","0">>), JNull, JList(<<>>), JList(<<JStr(<<"h","o","r","r","o","r">>)>>))],
    [kind |-> "json", json |-> JObject(JNull, JNull, JNull, JList(<<>>), JList(<<>>))],
    [kind |-> "json", json |-> JObject(JStr(<<"d","r","a","m","a">>), JStr(<<"s","o","o","n">>), JNull, JList(<<>>), JList(<<>>))],
    [kind |-> "json", json |-> JObject(JStr(<<"d","r","a","m","a">>), JNull, JNull, JNull, JList(<<>>))],
    [kind |-> "json", json |-> JObject(JStr(<<"d","r","a","m","a">>), JNull, JNull, JList(<<>>), JStr(<<"d","r","a","m","a">>))] }

\* the movies of the collection, nearest to the query first; distance is the
\* cosine distance in hundredths
RankedMovies ==
  << ChatSearchResultItem(<<"1","1">>, <<"H","e","a","t">>, <<"1","9","9","5","-","1","2","-","1","5">>, <<"A","c","t","i","o","n",","," ","C","r","i","m","e">>, <<>>, 5),
     ChatSearchResultItem(<<"1","2">>, <<"S","a","w">>, <<"2","0","0","4","-","1","0","-","2","9">>, <<"H","o","r","r","o","r">>, <<>>, 9),
     ChatSearchResultItem(<<"1","3">>, <<"D","a","n","g","a","l">>, <<"2","0","1","6","-","1","2","-","2","1">>, <<"D","r","a","m","a">>, <<"H","i","n","d","i"," ","f","i","l","m">>, 12),
     ChatSearchResultItem(<<"1","4">>, <<"A","l","i","e","n">>, <<>>, <<"H","o","r","r","o","r",","," ","S","c","i","e","n","c","e"," ","F","i","c","t","i","o","n">>, <<>>, 20),
     ChatSearchResultItem(<<"1","5">>, <<"L","o","s","t">>, <<"n",".","d",".">>, <<"A","c","t","i","o","n",","," ","H","o","r","r","o","r">>, <<>>, 21),
     ChatSearchResultItem(<<"1","6">>, None, None, None, None, 30),
     ChatSearchResultItem(<<"1","7">>, <<"U","p">>, <<"2","0","0","9","-","0","5","-","2","9">>, <<"A","n","i","m","a","t","i","o","n",","," ","C","o","m","e","d","y">>, <<>>, 44) >>

\* process_conversation_with_llm without the outer except Exception (a faulty
\* variant: C5 fails for it)
process_conversation_json_errors_only(messages, llm) ==
  LET body == LLMTryBody(llm)
  IN  IF body.raised = "JSONDecodeError"
        THEN Returned(extract_filters_fallback(messages))
        ELSE body

\* the two handlers: except json.JSONDecodeError (line 138) and
\* except Exception (line 143) both return the fallback's filters
process_conversation_with_llm(messages, llm) ==
  LET body == LLMTryBody(llm)
  IN  IF body.raised = "" THEN body
      ELSE IF body.raised = "JSONDecodeError"
        THEN Returned(extract_filters_fallback(messages))
      ELSE Returned(extract_filters_fallback(messages))

(***************************************************************************)
(* The endpoint: one chat_search request at a time                         *)
(***************************************************************************)

\* the largest collection the index holds in the model
MaxCollection == 6

VARIABLES
  pc,              \* where the handler is: idle, validate, extract, embed, query, format, done
  messages,        \* chat_query.messages
  n_results,       \* chat_query.n_results
  llm_reply,       \* what the language-model call did ([kind |-> "none"] before it)
  filters,         \* the extracted ChatSearchFilters
  query_embedding, \* "None" or "vector"
  index_state,     \* how the index stage went: unused, no_dir, open_error, query_error, ok
  k_requested,     \* n_results passed to collection.query (0: not queried)
  results,         \* initial_results: what the index returned, as ChatSearchResultItems
  filtered_results,\* what apply_filters returned
  response,        \* the HTTP response: status, detail, results
  calls,           \* the calls made to the external services, in order
  handlers,        \* the locals of the handlers that run side by side (<<>>: one request at a time)
  process          \* what all handlers of the process share: the class defaults of
                   \* ChatSearchFilters and openai.api_key

vars == <<pc, messages, n_results, llm_reply, filters, query_embedding,
          index_state, k_requested, results, filtered_results, response, calls,
          handlers, process>>

\* the process after the import of the module: the defaults of lines 54-55,
\* and no key given to the openai module yet
ProcessStart == [include_default |-> <<>>, exclude_default |-> <<>>, api_key |-> "unset"]

NoResponse == [status |-> 0, detail |-> "", results |-> <<>>]

\* HTTPException(status_code, detail) reaching the client
HttpError(status, detail) == [status |-> status, detail |-> detail, results |-> <<>>]

\* ChatSearchResponse(results=...)
ChatSearchResponse(items) == [status |-> 200, detail |-> "", results |-> items]

NoMessagesDetail == "No messages provided in the chat query."

EmbeddingFailedDetail == "Failed to generate embedding for search query."

DbMissingDetail == "ChromaDB directory not found at {db_dir}. Run setup first."

QueryFailedDetail == "Failed to query vector database."

UnhandledDetail == "Internal Server Error"

Min(a, b) == IF a <= b THEN a ELSE b

\* s[:n]
Take(s, n) == SubSeq(s, 1, Min(n, Len(s)))

\* what the index stage may do: the directory is missing, the client or the
\* collection cannot be opened, the query raises, or the collection (of a given
\* size) answers
IndexOutcomes ==
  {[kind |-> k, size |-> 0] : k \in {"no_dir", "open_error", "query_error"}}
    \cup {[kind |-> "ok", size |-> c] : c \in 0..Min(MaxCollection, Len(RankedMovies))}

Init ==
  /\ handlers = <<>>
  /\ process = ProcessStart
  /\ pc = "idle"
  /\ messages = <<>>
  /\ n_results = MinNResults
  /\ llm_reply = [kind |-> "none"]
  /\ filters = DefaultFilters
  /\ query_embedding = "None"
  /\ index_state = "unused"
  /\ k_requested = 0
  /\ results = <<>>
  /\ filtered_results = <<>>
  /\ response = NoResponse
  /\ calls = <<>>

\* a request arrives; its body passed the ChatSearchQuery validation
Request ==
  /\ pc = "idle"
  /\ \E msgs \in Conversations, n \in NResultsChoices :
       /\ messages' = msgs
       /\ n_results' = n
  /\ pc' = "validate"
  /\ UNCHANGED <<llm_reply, filters, query_embedding, index_state,
                 k_requested, results, filtered_results, response, calls,
                 handlers, process>>

\* the response is sent and the request's locals are gone
Respond ==
  /\ pc = "done"
  /\ pc' = "idle"
  /\ messages' = <<>>
  /\ n_results' = MinNResults
  /\ llm_reply' = [kind |-> "none"]
  /\ filters' = DefaultFilters
  /\ query_embedding' = "None"
  /\ index_state' = "unused"
  /\ k_requested' = 0
  /\ results' = <<>>
  /\ filtered_results' = <<>>
  /\ response' = NoResponse
  /\ calls' = <<>>
  /\ UNCHANGED <<handlers, process>>

\* Validate without the check for an empty list (a faulty variant: C4 fails
\* for it)
Validate_unchecked ==
  /\ pc = "validate"
  /\ pc' = "extract"
  /\ UNCHANGED <<messages, n_results, llm_reply, filters, query_embedding,
                 index_state, k_requested, results, filtered_results, response, calls,
                 handlers, process>>

\* if not chat_query.messages: raise HTTPException(400, ...)
Validate ==
  /\ pc = "validate"
  /\ IF messages = <<>>
       THEN /\ response' = HttpError(400, NoMessagesDetail)
            /\ pc' = "done"
       ELSE /\ response' = response
            /\ pc' = "extract"
  /\ UNCHANGED <<messages, n_results, llm_reply, filters, query_embedding,
                 index_state, k_requested, results, filtered_results, calls,
                 handlers, process>>

\* filters = process_conversation_with_llm(chat_query.messages); an exception
\* leaving it would leave the handler too
Extract ==
  /\ pc = "extract"
  /\ \E llm \in LLMOutcomes :
       LET r == process_conversation_with_llm(messages, llm)
       IN  /\ llm_reply' = llm
           /\ calls' = Append(calls, "llm")
           /\ IF r.raised = ""
                THEN /\ filters' = r.value
                     /\ response' = response
                     /\ pc' = "embed"
                ELSE /\ filters' = filters
                     /\ response' = HttpError(500, UnhandledDetail)
                     /\ pc' = "done"
  /\ UNCHANGED <<messages, n_results, query_embedding, index_state,
                 k_requested, results, filtered_results,
                 handlers, process>>

\* create_embedding_from_query without the check for an empty text (a faulty
\* variant: C6 fails for it)
create_embedding_unguarded(query_text, service) ==
  IF service = "ok" THEN [embedding |-> "vector", called |-> TRUE]
  ELSE [embedding |-> "None", called |-> TRUE]

\* create_embedding_from_query(query_text) when the service answers as `service`:
\* the embedding, and whether the service was called
create_embedding_from_query(query_text, service) ==
  IF ~TruthyStr(query_text) THEN [embedding |-> "None", called |-> FALSE]
  ELSE IF service = "ok" THEN [embedding |-> "vector", called |-> TRUE]
  ELSE [embedding |-> "None", called |-> TRUE]

\* query_embedding = create_embedding_from_query(filters.main_query)
\* if query_embedding is None: raise HTTPException(500, ...)
Embed ==
  /\ pc = "embed"
  /\ \E service \in {"ok", "error"} :
       LET e == create_embedding_from_query(filters.main_query, service)
       IN  /\ query_embedding' = e.embedding
           /\ calls' = IF e.called THEN Append(calls, "embed") ELSE calls
           /\ IF e.embedding = "None"
                THEN /\ response' = HttpError(500, EmbeddingFailedDetail)
                     /\ pc' = "done"
                ELSE /\ response' = response
                     /\ pc' = "query"
  /\ UNCHANGED <<messages, n_results, llm_reply, filters, index_state,
                 k_requested, results, filtered_results,
                 handlers, process>>

\* multiplier = 3 if (filters.min_year or filters.max_year or
\*                    filters.include_genres or filters.exclude_genres) else 1
Multiplier(f) ==
  IF \/ TruthyInt(f.min_year) \/ TruthyInt(f.max_year)
     \/ f.include_genres # <<>> \/ f.exclude_genres # <<>>
    THEN OverfetchMultiplier ELSE 1

\* n_results=min(chat_query.n_results * multiplier, 50)
QuerySize(n, f) == Min(n * Multiplier(f), QueryCap)

\* QueryTryBody with a failed collection.query tried once more (a faulty
\* variant: C8 fails for it)
QueryTryBody_retrying(n, f, index) ==
  CASE index.kind = "no_dir" ->
         [raised |-> "HTTPException", detail |-> DbMissingDetail,
          made |-> <<>>, k |-> 0, items |-> <<>>]
    [] index.kind = "open_error" ->
         [raised |-> "ChromaError", detail |-> "",
          made |-> <<"index_open">>, k |-> 0, items |-> <<>>]
    [] index.kind = "query_error" ->
         [raised |-> "ChromaError", detail |-> "",
          made |-> <<"index_open", "index_query", "index_query">>,
          k |-> QuerySize(n, f), items |-> <<>>]
    [] index.kind = "ok" ->
         [raised |-> "", detail |-> "",
          made |-> <<"index_open", "index_query">>, k |-> QuerySize(n, f),
          items |-> Take(Take(RankedMovies, index.size), QuerySize(n, f))]

\* the body of the try, lines 311-329, without its handler: the exception it
\* raises ("" if none), the detail of a raised HTTPException, the index calls
\* it made, the size it asked for and the items the index returned
QueryTryBody(n, f, index) ==
  CASE index.kind = "no_dir" ->
         [raised |-> "HTTPException", detail |-> DbMissingDetail,
          made |-> <<>>, k |-> 0, items |-> <<>>]
    [] index.kind = "open_error" ->
         [raised |-> "ChromaError", detail |-> "",
          made |-> <<"index_open">>, k |-> 0, items |-> <<>>]
    [] index.kind = "query_error" ->
         [raised |-> "ChromaError", detail |-> "",
          made |-> <<"index_open", "index_query">>, k |-> QuerySize(n, f), items |-> <<>>]
    [] index.kind = "ok" ->
         [raised |-> "", detail |-> "",
          made |-> <<"index_open", "index_query">>, k |-> QuerySize(n, f),
          items |-> Take(Take(RankedMovies, index.size), QuerySize(n, f))]

\* except Exception as e: raise HTTPException(500, "Failed to query vector database.")
\* HTTPException is an Exception: the handler catches the one of line 316 too
QueryHandler(body) ==
  IF body.raised = "" THEN NoResponse
  ELSE HttpError(500, QueryFailedDetail)

Query ==
  /\ pc = "query"
  /\ \E index \in IndexOutcomes :
       LET body == QueryTryBody(n_results, filters, index)
       IN  /\ index_state' = index.kind
           /\ calls' = calls \o body.made
           /\ k_requested' = body.k
           /\ results' = body.items
           /\ response' = QueryHandler(body)
           /\ pc' = IF body.raised = "" THEN "format" ELSE "done"
  /\ UNCHANGED <<messages, n_results, llm_reply, filters, query_embedding,
                 filtered_results,
                 handlers, process>>

\* the slice with one item too many (a faulty variant: C2 fails for it)
Truncate_one_more(filtered, n) == Take(filtered, n + 1)

\* filtered_results[:chat_query.n_results]
Truncate(filtered, n) == Take(filtered, n)

\* lines 334-358: no ids, an empty response; else filter, truncate and return
FormatResults ==
  /\ pc = "format"
  /\ filtered_results' = IF results = <<>> THEN <<>> ELSE apply_filters(results, filters)
  /\ response' = ChatSearchResponse(Truncate(filtered_results', n_results))
  /\ pc' = "done"
  /\ UNCHANGED <<messages, n_results, llm_reply, filters, query_embedding,
                 index_state, k_requested, results, calls,
                 handlers, process>>

Next == Request \/ Validate \/ Extract \/ Embed \/ Query \/ FormatResults \/ Respond

Spec == Init /\ [][Next]_vars

(***************************************************************************)
(* apply_filters on its own: the handler at line 350, with any filters the *)
(* extraction can produce and any candidates the index can return          *)
(***************************************************************************)

\* the longest candidate list
MaxCands == 3

\* two more movies the index may hold
MoreMovies ==
  << ChatSearchResultItem(<<"1","8">>, <<"I","n","d","i","a","n"," ","S","u","m","m","e","r">>, <<"1","9","9","3","-","0","4","-","2","3">>, <<"C","o","m","e","d","y",","," ","D","r","a","m","a">>, <<>>, 50),
     ChatSearchResultItem(<<"1","9">>, <<"R","i","n","g">>, <<"2","0","0","2">>, <<"H","O","R","R","O","R",","," ","T","h","r","i","l","l","e","r">>, <<>>, 61) >>

CandidatePool == Range(RankedMovies) \cup Range(MoreMovies)

\* the movies of a set, nearest first (their distances differ)
RECURSIVE Ranked(_)
Ranked(movies) ==
  IF movies = {} THEN <<>>
  ELSE LET nearest == CHOOSE m \in movies : \A o \in movies : m.distance <= o.distance
       IN  <<nearest>> \o Ranked(movies \ {nearest})

\* what the index may return: up to MaxCands movies, nearest first
CandidateLists ==
  {Ranked(c) : c \in {c \in SUBSET CandidatePool : Cardinality(c) <= MaxCands}}

IncludeChoices ==
  { <<>>, <<<<"a","c","t","i","o","n">>>>, <<<<"i","n","d","i","a","n">>>>, <<<<"i","n","d","i","a","n">>, <<"b","o","l","l","y","w","o","o","d">>>>, <<<<"b","o","l","l","y","w","o","o","d">>, <<"D","r","a","m","a">>>>, <<<<"H","o","r","r","o","r">>>> }

ExcludeChoices ==
  { <<>>, <<<<"h","o","r","r","o","r">>>>, <<<<"C","o","m","e","d","y">>, <<"c","r","i","m","e">>>> }

\* the filters an extraction may produce
FilterChoices ==
  {ChatSearchFilters(<<"d","r","a","m","a">>, lo, hi, inc, exc) :
     lo \in {NoneInt, 2000}, hi \in {NoneInt, 0, 2005},
     inc \in IncludeChoices, exc \in ExcludeChoices}

\* the reply of the language model that yields filters f
ReplyOf(f) ==
  [kind |-> "json",
   json |-> JObject(JStr(f.main_query),
                    IF f.min_year = NoneInt THEN JNull ELSE JInt(f.min_year),
                    IF f.max_year = NoneInt THEN JNull ELSE JInt(f.max_year),
                    JList([i \in 1..Len(f.include_genres) |-> JStr(f.include_genres[i])]),
                    JList([i \in 1..Len(f.exclude_genres) |-> JStr(f.exclude_genres[i])]))]

\* the handler about to filter: the extraction produced f, the index returned c
InitFilter ==
  /\ handlers = <<>>
  /\ process = ProcessStart
  /\ pc = "format"
  /\ messages = << ChatMessage("user", <<"d","r","a","m","a">>) >>
  /\ n_results = DefaultNResults
  /\ \E f \in FilterChoices :
       /\ filters = f
       /\ llm_reply = ReplyOf(f)
       /\ k_requested = QuerySize(DefaultNResults, f)
  /\ query_embedding = "vector"
  /\ index_state = "ok"
  /\ results \in CandidateLists
  /\ filtered_results = <<>>
  /\ response = NoResponse
  /\ calls = <<"llm", "embed", "index_open", "index_query">>

NextFilter == FormatResults

SpecFilter == InitFilter /\ [][NextFilter]_vars

(***************************************************************************)
(* Properties                                                              *)
(***************************************************************************)

\* a is b with some of its elements left out
RECURSIVE IsSubsequence(_, _)
IsSubsequence(a, b) ==
  IF a = <<>> THEN TRUE
  ELSE IF b = <<>> THEN FALSE
  ELSE IF Head(a) = Head(b) THEN IsSubsequence(Tail(a), Tail(b))
  ELSE IsSubsequence(a, Tail(b))

NoDuplicates(a) == \A i, j \in 1..Len(a) : i # j => a[i] # a[j]

\* nearest first
AscendingDistance(a) == \A i, j \in 1..Len(a) : i < j => a[i].distance <= a[j].distance

\* C1: the output of apply_filters is a subsequence of its input: every
\* output item is an input item, none is duplicated, and the output items
\* stand in the order they have in the input.
C1_FilterIsSubsequence ==
  pc = "done" =>
    /\ IsSubsequence(filtered_results, results)
    /\ NoDuplicates(filtered_results)
    /\ AscendingDistance(filtered_results)

\* C1 witness: of three candidates the middle one was dropped and the outer two kept
C1_Witness ==
  /\ pc = "done"
  /\ Len(results) = 3
  /\ filtered_results = <<results[1], results[3]>>

\* C2: a successful response holds at most n_results items, and they are the
\* first n_results items (all, if there are fewer) of the filtered list, in
\* the order of the index.
C2_ResponseIsPrefix ==
  (pc = "done" /\ response.status = 200) =>
    /\ Len(response.results) <= n_results
    /\ Len(response.results) = Min(n_results, Len(filtered_results))
    /\ \A i \in 1..Len(response.results) : response.results[i] = filtered_results[i]
    /\ IsSubsequence(filtered_results, results)
    /\ AscendingDistance(response.results)

\* C2 witness: more candidates passed the filter than were asked for
C2_Witness ==
  /\ pc = "done"
  /\ response.status = 200
  /\ Len(filtered_results) > n_results
  /\ Len(response.results) = n_results

\* a filter field is set: a year that is not None, a genre list that is not empty
AnyFilterSet(f) ==
  \/ f.min_year # NoneInt \/ f.max_year # NoneInt
  \/ f.include_genres # <<>> \/ f.exclude_genres # <<>>

\* C3: the index is asked for min(n_results * multiplier, 50) candidates, the
\* multiplier being 3 if any of min_year, max_year, a non-empty include_genres
\* or a non-empty exclude_genres is set, and 1 otherwise.
C3_QuerySize ==
  index_state \in {"ok", "query_error"} =>
    k_requested = Min(n_results * (IF AnyFilterSet(filters) THEN 3 ELSE 1), 50)

\* C4: a request with no messages ends in a 400 error, and no call is made to
\* the language model, the embedding service or the index.
C4_EmptyMessagesRejected ==
  (messages = <<>> /\ pc \notin {"idle", "validate"}) =>
    /\ pc = "done"
    /\ response.status = 400
    /\ calls = <<>>
    /\ llm_reply.kind = "none"
    /\ query_embedding = "None"
    /\ index_state = "unused"

\* C4 witness: the 400 response to a request with no messages
C4_Witness ==
  /\ pc = "done"
  /\ messages = <<>>
  /\ response = HttpError(400, NoMessagesDetail)

\* a string of decimal digits
AllDigits(s) == s # <<>> /\ \A i \in 1..Len(s) : s[i] \in Range(Digits)

\* the JSON value fits str (or the key is missing)
FitsStr(j) == j.t \in {"str", "absent"}

\* the JSON value fits Optional[int] (or the key is missing)
FitsYear(j) == j.t \in {"null", "int", "absent"} \/ (j.t = "str" /\ AllDigits(j.v))

\* the JSON value fits List[str] (or the key is missing)
FitsGenres(j) ==
  \/ j.t = "absent"
  \/ j.t = "list" /\ \A i \in 1..Len(j.v) : j.v[i].t = "str"

\* the call raised, or what it returned is no JSON, or JSON that does not fit
\* the filter schema
RejectedReply(llm) ==
  IF llm.kind \in {"error", "null_content", "text"} THEN TRUE
  ELSE IF llm.kind # "json" THEN FALSE
  ELSE IF llm.json.t # "object" THEN TRUE
  ELSE ~ /\ FitsStr(llm.json.main_query)
         /\ FitsYear(llm.json.min_year) /\ FitsYear(llm.json.max_year)
         /\ FitsGenres(llm.json.include_genres) /\ FitsGenres(llm.json.exclude_genres)

\* C5: whenever the language-model call raises or its reply is not JSON or
\* does not fit the filter schema, the extracted filters are those of
\* extract_filters_fallback on the same messages, and no error leaves the
\* extraction.
C5_FallbackOnAnyFailure ==
  /\ response.detail # UnhandledDetail
  /\ (llm_reply.kind # "none" /\ RejectedReply(llm_reply)) => pc # "extract"
  /\ (pc = "embed" /\ RejectedReply(llm_reply)) =>
       filters = extract_filters_fallback(messages)

\* C5 witness: a JSON object whose main_query is null, and the filters the
\* fallback finds in "... before 2010, not horror"
C5_Witness ==
  /\ pc = "embed"
  /\ llm_reply.kind = "json"
  /\ RejectedReply(llm_reply)
  /\ filters.max_year = 2010
  /\ filters.exclude_genres = << <<"h","o","r","r","o","r">> >>

\* the embedding stage is over
EmbedStageOver ==
  \/ pc \in {"query", "format"}
  \/ pc = "done" /\ llm_reply.kind # "none"

IndexTouched ==
  \/ index_state # "unused"
  \/ k_requested # 0
  \/ \E i \in 1..Len(calls) : calls[i] \in {"index_open", "index_query"}

\* C6: if the extracted main_query is empty or the embedding call fails, the
\* request ends in a 500 error and the index is not queried; the index is
\* queried only with an embedding.
C6_NoEmbeddingNoQuery ==
  /\ (EmbedStageOver /\ (filters.main_query = <<>> \/ query_embedding = "None")) =>
       /\ pc = "done"
       /\ response.status = 500
       /\ ~IndexTouched
  /\ IndexTouched => query_embedding = "vector"

\* C6 witness: the main_query is empty, the embedding service was not called
\* and the request ended in the 500 error of the embedding stage
C6_Witness ==
  /\ pc = "done"
  /\ llm_reply.kind # "none"
  /\ filters.main_query = <<>>
  /\ calls = <<"llm">>
  /\ response = HttpError(500, EmbeddingFailedDetail)

\* C7: a failure of the index stage ends in a 500 error, and when the index
\* directory is missing the error carries the message that tells to run the
\* setup.
C7_SetupMessageDelivered ==
  /\ index_state \in {"no_dir", "open_error", "query_error"} =>
       (pc = "done" /\ response.status = 500)
  /\ index_state = "no_dir" => response.detail = DbMissingDetail

\* the order of the pipeline's external calls
PipelineOrder == <<"llm", "embed", "index_open", "index_query">>

IsPrefix(a, b) == Len(a) <= Len(b) /\ \A i \in 1..Len(a) : a[i] = b[i]

\* C8: in one request the language model, the embedding service and the
\* index are each called at most once, in that order, and a failed call is
\* not repeated: after an embedding or index failure the request ends in a
\* 500 error, after a language-model failure it goes on with the fallback.
C8_SequentialNoRetry ==
  /\ IsPrefix(calls, PipelineOrder)
  /\ index_state \in {"no_dir", "open_error", "query_error"} =>
       (pc = "done" /\ response.status = 500)
  /\ (EmbedStageOver /\ query_embedding = "None") =>
       (pc = "done" /\ response.status = 500 /\ IsPrefix(calls, <<"llm", "embed">>))
  /\ (pc = "embed" /\ RejectedReply(llm_reply)) => calls = <<"llm">>
  /\ response.status = 200 => (calls = PipelineOrder /\ index_state = "ok")

\* C8 witness: the query raised; the request ended in a 500 error after one
\* call to each service
C8_Witness ==
  /\ pc = "done"
  /\ index_state = "query_error"
  /\ calls = PipelineOrder
  /\ response.status = 500

\* the genre text of the item contains a term of exclude_genres, whatever the case
HasExcludedGenre(item, f) ==
  /\ item.genres # None
  /\ \E i \in 1..Len(f.exclude_genres) :
       Contains(Lower(item.genres), Lower(f.exclude_genres[i]))

\* C9: a candidate whose genre text contains a term of exclude_genres is not
\* in the output of apply_filters, whatever include_genres holds and whether
\* or not the regional rule accepted it.
C9_ExclusionWins ==
  pc = "done" =>
    \A i \in 1..Len(results) :
      HasExcludedGenre(results[i], filters) =>
        \A j \in 1..Len(filtered_results) : filtered_results[j] # results[i]

\* C9 witness: a dated candidate that the include rule accepted and the
\* exclude rule dropped
C9_Witness ==
  /\ pc = "done"
  /\ filters.include_genres # <<>>
  /\ filters.min_year = NoneInt /\ filters.max_year = NoneInt
  /\ \E i \in 1..Len(results) :
       /\ results[i].release_date \notin {None, <<>>}
       /\ IncludeMatch(results[i], filters)
       /\ HasExcludedGenre(results[i], filters)
       /\ \A j \in 1..Len(filtered_results) : filtered_results[j] # results[i]

NoConstraints(f) ==
  /\ f.min_year = NoneInt /\ f.max_year = NoneInt
  /\ f.include_genres = <<>> /\ f.exclude_genres = <<>>

\* the release_date is missing or empty
NoDate(item) == item.release_date \in {None, <<>>}

\* the release_date is missing, empty, or its part before the first "-" is no number
UnparsableDate(item) ==
  \/ NoDate(item)
  \/ ~AllDigits(Strip(SplitDashFirst(item.release_date)))

\* C10 as stated: with no constraint set, apply_filters returns the input
\* without the entries whose release_date is unparsable (empty, missing, or
\* with a non-numeric year part), and removes nothing else.
C10_DropsUnparsable ==
  (pc = "done" /\ NoConstraints(filters)) =>
    filtered_results = SelectSeq(results, LAMBDA item : ~UnparsableDate(item))

\* C10 amended: with no constraint set, apply_filters returns the input
\* without the entries whose release_date is empty or missing, and removes
\* nothing else; an entry whose year part is not a number stays.
C10_DropsUndated ==
  (pc = "done" /\ NoConstraints(filters)) =>
    filtered_results = SelectSeq(results, LAMBDA item : ~NoDate(item))

\* C10 witness: no constraint set; an entry with no date was dropped and an
\* entry with a non-numeric year part was kept
C10_Witness ==
  /\ pc = "done"
  /\ NoConstraints(filters)
  /\ \E i \in 1..Len(results) : NoDate(results[i])
  /\ \E j \in 1..Len(filtered_results) : UnparsableDate(filtered_results[j])
  /\ Len(filtered_results) < Len(results)

\* the include list is not empty and holds regional terms only
OnlyRegional(genres) ==
  /\ genres # <<>>
  /\ \A i \in 1..Len(genres) : InList(genres[i], RegionalGenres)

\* "indian", "bollywood" or "hindi" occurs in the genres, title or overview
RegionalCandidate(item) ==
  \/ HasRegionalTerm(item.genres)
  \/ HasRegionalTerm(item.title)
  \/ HasRegionalTerm(item.overview)

\* C11: when include_genres holds regional terms only ("indian", "bollywood"
\* or both), apply_filters keeps a candidate only if "indian", "bollywood" or
\* "hindi" occurs in its genres, title or overview.
C11_RegionalGating ==
  (pc = "done" /\ OnlyRegional(filters.include_genres)) =>
    \A j \in 1..Len(filtered_results) : RegionalCandidate(filtered_results[j])

\* C11 for a single regional term: the part of the claim the code keeps
C11_SingleTermGating ==
  (pc = "done" /\ OnlyRegional(filters.include_genres)
     /\ Len(filters.include_genres) = 1) =>
    \A j \in 1..Len(filtered_results) : RegionalCandidate(filtered_results[j])

(***************************************************************************)
(* extract_filters_fallback on its own: the handler at line 298 when the   *)
(* language-model call raises, over conversations that exercise the rules  *)
(***************************************************************************)

\* what the user may write
FallbackTexts ==
  << <<"S","u","g","g","e","s","t"," ","a","c","t","i","o","n"," ","m","o","v","i","e","s"," ","b","e","f","o","r","e"," ","2","0","1","0",","," ","n","o","t"," ","h","o","r","r","o","r">>,
     <<"m","o","v","i","e","s"," ","f","r","o","m"," ","t","h","e"," ","9","0","s">>,
     <<"f","r","o","m"," ","1","9","9","0"," ","t","o"," ","2","0","0","0">>,
     <<"f","r","o","m"," ","1","9","9","0"," ","a","n","d"," ","2","0","0","0">>,
     <<"b","e","t","w","e","e","n"," ","1","9","9","0"," ","a","n","d"," ","2","0","0","0">>,
     <<"f","r","o","m"," ","1","9","9","0","-","2","0","0","0">>,
     <<"i","n"," ","1","9","8","5">>,
     <<"b","e","f","o","r","e"," ","2","0","0","0"," ","i","n"," ","1","9","8","5">>,
     <<"b","e","f","o","r","e"," ","0","0","0","0"," ","i","n"," ","1","9","8","5">>,
     <<"a","f","t","e","r"," ","2","0","0","1"," ","i","n"," ","t","h","e"," ","8","0","s">>,
     <<"h","i","t","s"," ","o","f"," ","t","h","e"," ","2","0","1","0","s">>,
     <<"r","e","l","e","a","s","e","d"," ","i","n"," ","1","9","7","7"," ","n","o"," ","w","a","r">>,
     <<"b","e","t","w","e","e","n"," ","1","9","5","0"," ","a","n","d"," ","1","9","6","0"," ","b","e","f","o","r","e"," ","1","9","9","9">>,
     <<"c","o","m","e","d","y">>,
     <<"f","r","o","m"," ","0","0","0","0">>,
     <<"u","n","t","i","l"," ","1","9","9","9"," ","f","r","o","m"," ","t","h","e"," ","7","0","S">> >>

\* an earlier user message, an assistant's answer, a system message
EarlierUserText == <<"d","r","a","m","a">>

AssistantText == <<"o","k">>

SystemText == <<"b","e"," ","b","r","i","e","f">>

\* the conversations: each text as the only message, followed by an
\* assistant's answer, after an earlier user message, and both; and two
\* conversations with no user message
FallbackConversations ==
  UNION {{ << ChatMessage("user", t) >>,
           << ChatMessage("user", t), ChatMessage("assistant", AssistantText) >>,
           << ChatMessage("user", EarlierUserText), ChatMessage("user", t) >>,
           << ChatMessage("user", EarlierUserText), ChatMessage("user", t),
              ChatMessage("assistant", AssistantText) >> } : t \in Range(FallbackTexts)}
    \cup { << ChatMessage("assistant", AssistantText) >>,
           << ChatMessage("system", SystemText), ChatMessage("assistant", AssistantText) >> }

\* the handler about to extract the filters of a conversation
InitFallback ==
  /\ handlers = <<>>
  /\ process = ProcessStart
  /\ pc = "extract"
  /\ messages \in FallbackConversations
  /\ n_results = DefaultNResults
  /\ llm_reply = [kind |-> "none"]
  /\ filters = DefaultFilters
  /\ query_embedding = "None"
  /\ index_state = "unused"
  /\ k_requested = 0
  /\ results = <<>>
  /\ filtered_results = <<>>
  /\ response = NoResponse
  /\ calls = <<>>

\* Extract when the language-model call raises: the except branch of line 143
ExtractAfterError ==
  /\ pc = "extract"
  /\ llm_reply' = [kind |-> "error"]
  /\ filters' = process_conversation_with_llm(messages, [kind |-> "error"]).value
  /\ calls' = Append(calls, "llm")
  /\ pc' = "embed"
  /\ UNCHANGED <<messages, n_results, query_embedding, index_state,
                 k_requested, results, filtered_results, response,
                 handlers, process>>

NextFallback == ExtractAfterError

SpecFallback == InitFallback /\ [][NextFallback]_vars

\* the filters are those of the fallback
FallbackDone == pc = "embed" /\ llm_reply.kind = "error"

\* the user text the fallback scans
CombinedText == JoinSpace(UserContents(messages))

\* C13: on the single user message "Suggest action movies before 2010, not
\* horror" the fallback returns that message as main_query, max_year 2010, no
\* min_year, include_genres [action] and exclude_genres [horror].
C13_ExampleFilters ==
  (FallbackDone /\ messages = << ChatMessage("user", FallbackTexts[1]) >>) =>
    filters = ChatSearchFilters(FallbackTexts[1], NoneInt, 2010,
                                << <<"a","c","t","i","o","n">> >>, << <<"h","o","r","r","o","r">> >>)

\* C13 witness: the fallback ran on that message and found the year
C13_Witness ==
  /\ FallbackDone
  /\ messages = << ChatMessage("user", FallbackTexts[1]) >>
  /\ filters.max_year = 2010

\* the conversation holds a message of the user
HasUserMessage(msgs) == \E i \in 1..Len(msgs) : msgs[i].role = "user"

\* the content of the last message of the user
LastUserContent(msgs) ==
  LET last == CHOOSE i \in 1..Len(msgs) :
                /\ msgs[i].role = "user"
                /\ \A j \in (i + 1)..Len(msgs) : msgs[j].role # "user"
  IN  msgs[last].content

\* C14: the fallback's main_query is the content of the last message of the
\* user whenever the conversation holds one, also when other messages follow
\* it, and the concatenated user text otherwise.
C14_MainQueryIsLastUserMessage ==
  FallbackDone =>
    filters.main_query =
      IF HasUserMessage(messages) THEN LastUserContent(messages)
      ELSE CombinedText

\* C14 where the user's message is the last of the conversation: the part of
\* the claim the code keeps
C14_LastMessageOfUser ==
  (FallbackDone /\ messages[Len(messages)].role = "user") =>
    filters.main_query = messages[Len(messages)].content

\* year ranges as the user may write them, with the bounds they name
RangeWithTo == { [text |-> <<"f","r","o","m"," ","1","9","9","0"," ","t","o"," ","2","0","0","0">>, lo |-> 1990, hi |-> 2000] }

RangeWithAnd ==
  { [text |-> <<"f","r","o","m"," ","1","9","9","0"," ","a","n","d"," ","2","0","0","0">>, lo |-> 1990, hi |-> 2000],
    [text |-> <<"b","e","t","w","e","e","n"," ","1","9","9","0"," ","a","n","d"," ","2","0","0","0">>, lo |-> 1990, hi |-> 2000],
    [text |-> <<"b","e","t","w","e","e","n"," ","1","9","5","0"," ","a","n","d"," ","1","9","6","0">>, lo |-> 1950, hi |-> 1960] }

\* the fallback's bounds are those of every range of the set the text holds
RangesRead(ranges) ==
  \A r \in ranges :
    Contains(CombinedText, r.text) =>
      (filters.min_year = r.lo /\ filters.max_year = r.hi)

\* C15: user text with a year range written "from Y1 to Y2", "from Y1 and
\* Y2" or "between Y1 and Y2" gives min_year = Y1 and max_year = Y2, whatever
\* the before and after rules wrote.
C15_YearRangeRead == FallbackDone => RangesRead(RangeWithTo \cup RangeWithAnd)

\* C15 for the ranges written with "and": the part of the claim the code keeps
C15_RangeWithAndRead == FallbackDone => RangesRead(RangeWithAnd)

\* the filters after the before, after, range and decade rules
BeforeBareYear ==
  DecadeRule(CombinedText,
    YearRangeRule(CombinedText,
      AfterYearRule(CombinedText,
        BeforeYearRule(CombinedText, DefaultFilters))))

\* a rule has written the bound
BoundSet(year) == year # NoneInt

\* the positions p where "in", "from" or "released in" begins and four digits
\* follow after whitespace, with no word character behind them; with the
\* position q of the digits
RECURSIVE SkipSpaces(_, _)
SkipSpaces(t, p) == IF p <= Len(t) /\ IsSpace(t[p]) THEN SkipSpaces(t, p + 1) ELSE p

BareYearWords == << <<"i","n">>, <<"f","r","o","m">>, <<"r","e","l","e","a","s","e","d">> >>

\* the four digits at q, not followed by a word character
YearAt(t, q) ==
  /\ q + 3 <= Len(t)
  /\ \A k \in 0..3 : IsDigit(t[q + k])
  /\ (q + 4 <= Len(t) => ~IsWordChar(t[q + 4]))

\* the leftmost bare year of the text: <<year>>, or <<>> if there is none
BareYear(t) ==
  LET AfterWord(p, w) == SkipSpaces(t, p + Len(w))
      Hit(p, w) ==
        /\ StartsWithCI(t, p, w)
        /\ (p + Len(w) <= Len(t) /\ IsSpace(t[p + Len(w)]))
        /\ IF w = BareYearWords[3]
             THEN /\ StartsWithCI(t, AfterWord(p, w), BareYearWords[1])
                  /\ AfterWord(p, w) + 2 <= Len(t)
                  /\ IsSpace(t[AfterWord(p, w) + 2])
                  /\ YearAt(t, SkipSpaces(t, AfterWord(p, w) + 2))
             ELSE YearAt(t, AfterWord(p, w))
      YearOf(p, w) ==
        IF w = BareYearWords[3]
          THEN DigitsValue(SubSeq(t, SkipSpaces(t, AfterWord(p, w) + 2),
                                     SkipSpaces(t, AfterWord(p, w) + 2) + 3))
          ELSE DigitsValue(SubSeq(t, AfterWord(p, w), AfterWord(p, w) + 3))
      hits == {<<p, i>> \in (1..Len(t)) \X (1..3) : Hit(p, BareYearWords[i])}
  IN  IF hits = {} THEN <<>>
      ELSE LET first == CHOOSE h \in hits :
                          \A o \in hits : h[1] < o[1] \/ (h[1] = o[1] /\ h[2] <= o[2])
           IN  <<YearOf(first[1], BareYearWords[first[2]])>>

\* C17: the bare-year rule sets min_year = max_year = YYYY if and only if its
\* pattern matches and none of the before, after, range and decade rules has
\* set a bound; if one of them has, it leaves both bounds as they are.
C17_BareYearOnlyIfUnset ==
  FallbackDone =>
    LET earlier == BeforeBareYear
        year == BareYear(CombinedText)
    IN  IF year # <<>> /\ ~BoundSet(earlier.min_year) /\ ~BoundSet(earlier.max_year)
          THEN filters.min_year = year[1] /\ filters.max_year = year[1]
          ELSE filters.min_year = earlier.min_year /\ filters.max_year = earlier.max_year

\* C17 where no earlier rule wrote the year 0: the part of the claim the code
\* keeps
C17_BareYearNonZero ==
  (FallbackDone /\ BeforeBareYear.min_year # 0 /\ BeforeBareYear.max_year # 0) =>
    LET earlier == BeforeBareYear
        year == BareYear(CombinedText)
    IN  IF year # <<>> /\ ~BoundSet(earlier.min_year) /\ ~BoundSet(earlier.max_year)
          THEN filters.min_year = year[1] /\ filters.max_year = year[1]
          ELSE filters.min_year = earlier.min_year /\ filters.max_year = earlier.max_year

\* a decade mention begins at p: a digit, "0" and "s" (or "S")
DecadeAt(t, p) ==
  /\ p + 2 <= Len(t)
  /\ IsDigit(t[p])
  /\ t[p + 1] = "0"
  /\ t[p + 2] \in {"s", "S"}

\* the first decade mention of the text: <<D0>>, or <<>> if there is none
FirstDecade(t) ==
  LET at == {p \in 1..Len(t) : DecadeAt(t, p)}
  IN  IF at = {} THEN <<>>
      ELSE LET p == CHOOSE p \in at : \A o \in at : p <= o
           IN  <<10 * DigitVal(t[p])>>

\* C18: a decade mention "D0s" in the user text gives min_year = 1900 + D0 and
\* max_year = min_year + 9, whatever the before, after and range rules wrote;
\* "movies from the 90s" gives 1990 and 1999 and no genre.
C18_DecadeOverwrites ==
  FallbackDone =>
    /\ FirstDecade(CombinedText) # <<>> =>
         /\ filters.min_year = 1900 + FirstDecade(CombinedText)[1]
         /\ filters.max_year = filters.min_year + 9
    /\ messages = << ChatMessage("user", FallbackTexts[2]) >> =>
         /\ filters.min_year = 1990 /\ filters.max_year = 1999
         /\ filters.include_genres = <<>> /\ filters.exclude_genres = <<>>

\* C18 witness: the before rule read "until 1999" and the decade rule wrote
\* over it
C18_Witness ==
  /\ FallbackDone
  /\ BeforeYearRule(CombinedText, DefaultFilters).max_year = 1999
  /\ FirstDecade(CombinedText) = <<70>>
  /\ filters.min_year = 1970 /\ filters.max_year = 1979

\* the release_date is not empty and its part before the first "-" is no number
NonNumericYear(item) ==
  /\ ~NoDate(item)
  /\ ParseInt(SplitDashFirst(item.release_date)) = <<>>

\* the item is not in the output
Dropped(item) == \A j \in 1..Len(filtered_results) : filtered_results[j] # item

\* C16: apply_filters drops a candidate whose release_date is empty, and
\* drops a candidate whose year part is not a number whenever a year bound is
\* set: min_year only, max_year only, or both.
C16_UndatedDropped ==
  pc = "done" =>
    \A i \in 1..Len(results) :
      /\ NoDate(results[i]) => Dropped(results[i])
      /\ (NonNumericYear(results[i])
            /\ (BoundSet(filters.min_year) \/ BoundSet(filters.max_year)))
           => Dropped(results[i])

\* C16 with a min_year above 0 set: the part of the claim the code keeps
C16_DroppedUnderMinYear ==
  pc = "done" =>
    \A i \in 1..Len(results) :
      /\ NoDate(results[i]) => Dropped(results[i])
      /\ (NonNumericYear(results[i]) /\ BoundSet(filters.min_year) /\ filters.min_year > 0)
           => Dropped(results[i])

(***************************************************************************)
(* Two requests side by side.  Each handler has its own locals; the        *)
(* handlers share the process: the class ChatSearchFilters with its        *)
(* default lists, and the openai module with its api_key.  A step of a     *)
(* handler is a stretch of its code between two calls; the steps of the    *)
(* two handlers interleave in any order.                                   *)
(***************************************************************************)

Handlers == {"a", "b"}

\* FieldDefault as a plain class attribute: the list of the class itself (a
\* faulty variant: C12 fails for it)
FieldDefault_shared(class_default) == [value |-> class_default, shares |-> TRUE]

\* a field default of a pydantic model: every instance gets a copy of it, so
\* what the instance appends stays out of the class
FieldDefault(class_default) == [value |-> class_default, shares |-> FALSE]

\* the conversations and the answers of the services in this specification
PairConversations ==
  { <<>>,
    << ChatMessage("user", <<"n","o"," ","w","a","r">>) >>,
    << ChatMessage("user", <<"c","o","m","e","d","y"," ","i","n"," ","1","9","8","5">>) >> }

PairLLMOutcomes ==
  { [kind |-> "error"],
    [kind |-> "json", json |-> JObject(JStr(<<"s","p","a","c","e">>), JInt(1990), JNull, JList(<<JStr(<<"D","r","a","m","a">>)>>), Absent)] }

PairIndexOutcomes == { [kind |-> "no_dir", size |-> 0], [kind |-> "ok", size |-> 3] }

\* the locals of a handler that has not got its request yet
IdleHandler ==
  [pc |-> "idle", messages |-> <<>>, n_results |-> DefaultNResults,
   llm_reply |-> [kind |-> "none"], filters |-> DefaultFilters, shares |-> FALSE,
   service |-> "none", index |-> [kind |-> "unused", size |-> 0],
   response |-> NoResponse]

InitPair ==
  /\ pc = "idle"
  /\ messages = <<>>
  /\ n_results = MinNResults
  /\ llm_reply = [kind |-> "none"]
  /\ filters = DefaultFilters
  /\ query_embedding = "None"
  /\ index_state = "unused"
  /\ k_requested = 0
  /\ results = <<>>
  /\ filtered_results = <<>>
  /\ response = NoResponse
  /\ calls = <<>>
  /\ handlers = [h \in Handlers |-> IdleHandler]
  /\ process = ProcessStart

\* the one-request variables stay as they are
OneRequestIdle ==
  UNCHANGED <<pc, messages, n_results, llm_reply, filters, query_embedding,
              index_state, k_requested, results, filtered_results, response, calls>>

\* the filters of a handler: its lists are the class's lists if it shares them
FiltersOf(h, proc) ==
  IF h.shares
    THEN [h.filters EXCEPT !.include_genres = proc.include_default,
                           !.exclude_genres = proc.exclude_default]
    ELSE h.filters

\* a request arrives at handler r
PairRequest(r) ==
  /\ handlers[r].pc = "idle"
  /\ \E msgs \in PairConversations :
       handlers' = [handlers EXCEPT ![r].messages = msgs, ![r].pc = "validate"]
  /\ UNCHANGED process
  /\ OneRequestIdle

\* lines 293-294
PairValidate(r) ==
  /\ handlers[r].pc = "validate"
  /\ handlers' =
       IF handlers[r].messages = <<>>
         THEN [handlers EXCEPT ![r].response = HttpError(400, NoMessagesDetail),
                               ![r].pc = "done"]
         ELSE [handlers EXCEPT ![r].pc = "call_llm"]
  /\ UNCHANGED process
  /\ OneRequestIdle

\* lines 82-137: openai.api_key is set, the model is called and its reply
\* parsed; an exception leads to the fallback
PairCallLLM(r) ==
  /\ handlers[r].pc = "call_llm"
  /\ process' = [process EXCEPT !.api_key = "key"]
  /\ \E llm \in PairLLMOutcomes :
       LET body == LLMTryBody(IF process'.api_key = "key" THEN llm ELSE [kind |-> "error"])
       IN  handlers' =
             IF body.raised = ""
               THEN [handlers EXCEPT ![r].llm_reply = llm, ![r].filters = body.value,
                                     ![r].shares = FALSE, ![r].pc = "embed"]
               ELSE [handlers EXCEPT ![r].llm_reply = llm, ![r].pc = "fallback_new"]
  /\ OneRequestIdle

\* lines 152-158: filters = ChatSearchFilters(), then its main_query
PairFallbackNew(r) ==
  /\ handlers[r].pc = "fallback_new"
  /\ LET inc == FieldDefault(process.include_default)
         exc == FieldDefault(process.exclude_default)
         fresh == ChatSearchFilters(<<>>, NoneInt, NoneInt, inc.value, exc.value)
         msgs == handlers[r].messages
         main_query ==
           IF msgs # <<>> /\ msgs[Len(msgs)].role = "user"
             THEN msgs[Len(msgs)].content
             ELSE JoinSpace(UserContents(msgs))
     IN  handlers' = [handlers EXCEPT
                        ![r].filters = [fresh EXCEPT !.main_query = main_query],
                        ![r].shares = inc.shares \/ exc.shares,
                        ![r].pc = "fallback_scan"]
  /\ UNCHANGED process
  /\ OneRequestIdle

\* lines 160-209: the year rules and the genre loop, which appends to the
\* lists of the instance
PairFallbackScan(r) ==
  /\ handlers[r].pc = "fallback_scan"
  /\ LET h == handlers[r]
         text == JoinSpace(UserContents(h.messages))
         scanned == ScanGenres(1, text, YearRules(text, FiltersOf(h, process)))
     IN  /\ handlers' = [handlers EXCEPT ![r].filters = scanned, ![r].pc = "embed"]
         /\ process' =
              IF h.shares
                THEN [process EXCEPT !.include_default = scanned.include_genres,
                                     !.exclude_default = scanned.exclude_genres]
                ELSE process
  /\ OneRequestIdle

\* lines 301-306
PairEmbed(r) ==
  /\ handlers[r].pc = "embed"
  /\ process' = [process EXCEPT !.api_key = "key"]
  /\ \E service \in {"ok", "error"} :
       LET h == handlers[r]
           e == create_embedding_from_query(FiltersOf(h, process).main_query,
                                            IF process'.api_key = "key" THEN service ELSE "error")
       IN  handlers' =
             IF e.embedding = "None"
               THEN [handlers EXCEPT ![r].service = service,
                                     ![r].response = HttpError(500, EmbeddingFailedDetail),
                                     ![r].pc = "done"]
               ELSE [handlers EXCEPT ![r].service = service, ![r].pc = "query"]
  /\ OneRequestIdle

\* lines 308-358: the index is only read
PairQuery(r) ==
  /\ handlers[r].pc = "query"
  /\ \E index \in PairIndexOutcomes :
       LET h == handlers[r]
           f == FiltersOf(h, process)
           body == QueryTryBody(h.n_results, f, index)
           filtered == IF body.items = <<>> THEN <<>> ELSE apply_filters(body.items, f)
       IN  handlers' =
             IF body.raised # ""
               THEN [handlers EXCEPT ![r].index = index, ![r].response = QueryHandler(body),
                                     ![r].pc = "done"]
               ELSE [handlers EXCEPT ![r].index = index,
                                     ![r].response =
                                        ChatSearchResponse(Truncate(filtered, h.n_results)),
                                     ![r].pc = "done"]
  /\ UNCHANGED process
  /\ OneRequestIdle

NextPair ==
  \E r \in Handlers :
    \/ PairRequest(r)
    \/ PairValidate(r)
    \/ PairCallLLM(r)
    \/ PairFallbackNew(r)
    \/ PairFallbackScan(r)
    \/ PairEmbed(r)
    \/ PairQuery(r)

SpecPair == InitPair /\ [][NextPair]_vars

\* the response of a request that runs alone, from its body and the answers
\* of the services
AloneResponse(msgs, n, llm, service, index) ==
  IF msgs = <<>> THEN HttpError(400, NoMessagesDetail)
  ELSE LET f == process_conversation_with_llm(msgs, llm).value
           e == create_embedding_from_query(f.main_query, service)
           body == QueryTryBody(n, f, index)
       IN  IF e.embedding = "None" THEN HttpError(500, EmbeddingFailedDetail)
           ELSE IF body.raised # "" THEN QueryHandler(body)
           ELSE ChatSearchResponse(
                  Truncate(IF body.items = <<>> THEN <<>> ELSE apply_filters(body.items, f), n))

\* C12: for any interleaving of two requests, the filters and the response of
\* each are those it has when it runs alone with the same answers of the
\* services; each fallback starts from empty genre lists and unset years.
C12_RequestsIndependent ==
  handlers # <<>> =>
    \A r \in Handlers :
      LET h == handlers[r]
      IN  /\ h.pc = "fallback_scan" =>
               /\ FiltersOf(h, process).include_genres = <<>>
               /\ FiltersOf(h, process).exclude_genres = <<>>
               /\ h.filters.min_year = NoneInt /\ h.filters.max_year = NoneInt
          /\ (h.pc \in {"embed", "query"} \/ (h.pc = "done" /\ h.messages # <<>>)) =>
               FiltersOf(h, process) = process_conversation_with_llm(h.messages, h.llm_reply).value
          /\ h.pc = "done" =>
               h.response = AloneResponse(h.messages, h.n_results, h.llm_reply, h.service, h.index)

\* C12 witness: both requests went through the fallback, one has its response
\* and the other, with other genres and years, is between two steps
C12_Witness ==
  /\ handlers # <<>>
  /\ handlers["a"].pc = "done" /\ handlers["a"].response.status = 200
  /\ handlers["a"].llm_reply.kind = "error"
  /\ handlers["a"].filters.exclude_genres # <<>>
  /\ handlers["b"].pc = "query"
  /\ handlers["b"].llm_reply.kind = "error"
  /\ handlers["b"].filters.include_genres # <<>>
  /\ handlers["b"].filters.min_year = 1985

=============================================================================
